---- MODULE Spec2Model ----
(***************************************************************************)
(* Model of wheel-patcher: the RECORD engine (record.py), the path helpers *)
(* (utils.py) and the WheelPatcher session (patcher.py).                   *)
(*                                                                         *)
(* Text is modelled character by character: a Python str is a sequence of  *)
(* one-character strings, bytes are a sequence of small naturals.          *)
(* The host is POSIX (os.path.isabs, unlink of an open file).              *)
(***************************************************************************)
EXTENDS Integers, Sequences, FiniteSets, TLC

\* ------------------------------------------------------------------ bounds
\* number of add_file calls explored on one session
MaxAdds == 2
\* number of save calls explored on one session
MaxSaves == 2
\* number of rows of a manifest handed to the RECORD functions
MaxEntries == 2
\* length of the free field of a manifest row handed to the RECORD functions
MaxFieldLen == 1
\* number of entries of an archive handed to the constructor
MaxNames == 3
\* number of elements of manifest['files'] handed to cmd_apply
MaxBatch == 2
\* number of keys of a staging map handed to update_record
MaxStaged == 2

\* ------------------------------------------------------- characters, text
SLASH == "/"
BACKSLASH == "\\"
COMMA == ","
QUOTE == "q"
LF == "lf"
CR == "cr"
\* the end-of-line marker the csv reader feeds to its state machine
EOL == "eol"

DistInfoSuffix == <<".", "d", "i", "s", "t", "-", "i", "n", "f", "o">>
\* the literal ".dist-info/" looked for by _resolve_dist_info_path
Placeholder == DistInfoSuffix \o <<SLASH>>
RecordName == <<"R", "E", "C", "O", "R", "D">>
Sha256Prefix == <<"s", "h", "a", "2", "5", "6", "=">>
\* the absent value of an Optional
None == <<"None">>

StartsWith(s, p) == Len(s) >= Len(p) /\ SubSeq(s, 1, Len(p)) = p

EndsWith(s, p) == Len(s) >= Len(p) /\ SubSeq(s, Len(s) - Len(p) + 1, Len(s)) = p

Range(s) == {s[i] : i \in 1..Len(s)}

\* str.split(sep) for a one-character separator: "" splits to [""]
RECURSIVE Split(_, _)
Split(s, sep) ==
  IF \A i \in 1..Len(s) : s[i] # sep
  THEN <<s>>
  ELSE LET k == CHOOSE i \in 1..Len(s) :
                  s[i] = sep /\ \A j \in 1..(i - 1) : s[j] # sep
       IN <<SubSeq(s, 1, k - 1)>> \o Split(SubSeq(s, k + 1, Len(s)), sep)

Digit(d) == <<"0", "1", "2", "3", "4", "5", "6", "7", "8", "9">>[d + 1]

\* str(n) for a natural number
RECURSIVE DecStr(_)
DecStr(n) == IF n < 10 THEN <<Digit(n)>> ELSE DecStr(n \div 10) \o <<Digit(n % 10)>>

\* --------------------------------------------------------------- utils.py
\* a search that accepts a ".dist-info" segment at any depth
RECURSIVE get_dist_info_dir_AnyDepth(_)
get_dist_info_dir_AnyDepth(namelist) ==
  IF namelist = <<>> THEN None
  ELSE LET parts == Split(Head(namelist), SLASH)
           hits == {i \in DOMAIN parts : EndsWith(parts[i], DistInfoSuffix)}
       IN IF hits # {} THEN parts[CHOOSE i \in hits : \A j \in hits : i <= j]
          ELSE get_dist_info_dir_AnyDepth(Tail(namelist))

\* get_dist_info_dir: first name whose first segment ends in ".dist-info"
RECURSIVE get_dist_info_dir(_)
get_dist_info_dir(namelist) ==
  IF namelist = <<>> THEN None
  ELSE LET parts == Split(Head(namelist), SLASH)
       IN IF EndsWith(parts[1], DistInfoSuffix) THEN parts[1]
          ELSE get_dist_info_dir(Tail(namelist))

RECURSIVE StripLeadingSlashes(_)
StripLeadingSlashes(s) ==
  IF StartsWith(s, <<SLASH>>) THEN StripLeadingSlashes(Tail(s)) ELSE s

\* a normalization that leaves backslashes alone
normalize_path_KeepBackslash(path) == StripLeadingSlashes(path)

\* normalize_path: backslashes become "/", leading "/" are stripped
normalize_path(path) ==
  StripLeadingSlashes([i \in 1..Len(path) |->
                         IF path[i] = BACKSLASH THEN SLASH ELSE path[i]])

\* os.path.isabs on a POSIX host
isabs(path) == StartsWith(path, <<SLASH>>)

\* a check of the first segment only
validate_path_safe_FirstSegment(path) ==
  LET normalized == normalize_path(path)
  IN IF Split(normalized, SLASH)[1] = <<".", ".">>
     THEN "PathTraversal"
     ELSE IF isabs(path) THEN "AbsolutePath" ELSE "none"

\* validate_path_safe: the error it raises, or "none"
validate_path_safe(path) ==
  LET normalized == normalize_path(path)
  IN IF \E i \in DOMAIN Split(normalized, SLASH) :
            Split(normalized, SLASH)[i] = <<".", ".">>
     THEN "PathTraversal"
     ELSE IF isabs(path) THEN "AbsolutePath" ELSE "none"

\* -------------------------------------------------------------- record.py
RecordEntry(p, h, s) == [path |-> p, hash |-> h, size |-> s]

to_csv_row(e) == <<e.path, e.hash, e.size>>

from_csv_row(row) ==
  RecordEntry(IF Len(row) > 0 THEN row[1] ELSE <<>>,
              IF Len(row) > 1 THEN row[2] ELSE <<>>,
              IF Len(row) > 2 THEN row[3] ELSE <<>>)

\* the digest is abstract: an injective text for each content the model
\* stages, one base64-alphabet character per byte
B64Char(b) == CASE b = "x" -> "A" [] b = "y" -> "B" [] OTHER -> "C"

hash_file(content) ==
  Sha256Prefix \o [i \in 1..Len(content) |-> B64Char(content[i])] \o <<"-">>

format_record_entry(path, content) ==
  IF content = None
  THEN RecordEntry(path, <<>>, <<>>)
  ELSE RecordEntry(path, hash_file(content), DecStr(Len(content)))

RemovePath(entries, p) == SelectSeq(entries, LAMBDA e : e.path # p)

\* a loop that appends without removing the rows of the path
RECURSIVE MergeNewFiles_NoRemove(_, _)
MergeNewFiles_NoRemove(entries, new_files) ==
  IF new_files = <<>> THEN entries
  ELSE MergeNewFiles_NoRemove(
         Append(entries,
                format_record_entry(Head(new_files).path, Head(new_files).content)),
         Tail(new_files))

\* the loop of update_record over new_files.items(), in insertion order
RECURSIVE MergeNewFiles(_, _)
MergeNewFiles(entries, new_files) ==
  IF new_files = <<>> THEN entries
  ELSE MergeNewFiles(
         Append(RemovePath(entries, Head(new_files).path),
                format_record_entry(Head(new_files).path, Head(new_files).content)),
         Tail(new_files))

update_record(existing_entries, new_files, record_path) ==
  Append(MergeNewFiles(RemovePath(existing_entries, record_path), new_files),
         format_record_entry(record_path, None))

\* csv.writer(lineterminator='\n'), QUOTE_MINIMAL, doublequote: a field is
\* quoted when it holds the delimiter, the quote character or a character of
\* the line terminator; a quote character inside it is doubled
NeedsQuote(field) == \E i \in 1..Len(field) : field[i] \in {COMMA, QUOTE, LF}

\* (the text operators below recurse on halves of their input, which keeps
\* the evaluation depth logarithmic in the length of the text)
RECURSIVE DoubleQuotes(_)
DoubleQuotes(field) ==
  IF field = <<>> THEN <<>>
  ELSE IF Len(field) = 1
       THEN IF field[1] = QUOTE THEN <<QUOTE, QUOTE>> ELSE field
       ELSE LET h == Len(field) \div 2
            IN DoubleQuotes(SubSeq(field, 1, h))
                 \o DoubleQuotes(SubSeq(field, h + 1, Len(field)))

WriteField(field) ==
  IF NeedsQuote(field) THEN <<QUOTE>> \o DoubleQuotes(field) \o <<QUOTE>>
  ELSE field

\* writer.writerow of a three-field row
writerow(row) ==
  WriteField(row[1]) \o <<COMMA>> \o WriteField(row[2]) \o <<COMMA>>
    \o WriteField(row[3]) \o <<LF>>

RECURSIVE format_record(_)
format_record(entries) ==
  IF entries = <<>> THEN <<>>
  ELSE IF Len(entries) = 1 THEN writerow(to_csv_row(entries[1]))
       ELSE LET h == Len(entries) \div 2
            IN format_record(SubSeq(entries, 1, h))
                 \o format_record(SubSeq(entries, h + 1, Len(entries)))

\* the characters the csv reader sees: StringIO yields lines ending at "\n",
\* and the reader feeds an end-of-line marker after each line
RECURSIVE MarkLines(_)
MarkLines(content) ==
  IF content = <<>> THEN <<>>
  ELSE IF Len(content) = 1
       THEN IF content[1] = LF THEN <<LF, EOL>> ELSE content
       ELSE LET h == Len(content) \div 2
            IN MarkLines(SubSeq(content, 1, h))
                 \o MarkLines(SubSeq(content, h + 1, Len(content)))

ReaderInput(content) ==
  MarkLines(content)
    \o (IF content # <<>> /\ content[Len(content)] # LF THEN <<EOL>> ELSE <<>>)

ReaderStart ==
  [state |-> "START_RECORD", field |-> <<>>, row |-> <<>>, rows |-> <<>>,
   err |-> FALSE]

SaveField(st) == [st EXCEPT !.row = Append(st.row, st.field), !.field = <<>>]

AddChar(st, c) == [st EXCEPT !.field = Append(st.field, c)]

AfterNewline(c) == IF c = EOL THEN "START_RECORD" ELSE "EAT_CRNL"

\* one step of the csv reader's state machine (default dialect, not strict)
ProcessChar(st, c) ==
  LET StartField ==
        IF c \in {LF, CR, EOL}
        THEN [SaveField(st) EXCEPT !.state = AfterNewline(c)]
        ELSE IF c = QUOTE THEN [st EXCEPT !.state = "IN_QUOTED_FIELD"]
        ELSE IF c = COMMA THEN [SaveField(st) EXCEPT !.state = "START_FIELD"]
        ELSE [AddChar(st, c) EXCEPT !.state = "IN_FIELD"]
  IN CASE st.state = "START_RECORD" ->
            IF c = EOL THEN st
            ELSE IF c \in {LF, CR} THEN [st EXCEPT !.state = "EAT_CRNL"]
            ELSE StartField
       [] st.state = "START_FIELD" -> StartField
       [] st.state = "IN_FIELD" ->
            IF c \in {LF, CR, EOL}
            THEN [SaveField(st) EXCEPT !.state = AfterNewline(c)]
            ELSE IF c = COMMA THEN [SaveField(st) EXCEPT !.state = "START_FIELD"]
            ELSE AddChar(st, c)
       [] st.state = "IN_QUOTED_FIELD" ->
            IF c = EOL THEN st
            ELSE IF c = QUOTE THEN [st EXCEPT !.state = "QUOTE_IN_QUOTED_FIELD"]
            ELSE AddChar(st, c)
       [] st.state = "QUOTE_IN_QUOTED_FIELD" ->
            IF c = QUOTE THEN [AddChar(st, c) EXCEPT !.state = "IN_QUOTED_FIELD"]
            ELSE IF c = COMMA THEN [SaveField(st) EXCEPT !.state = "START_FIELD"]
            ELSE IF c \in {LF, CR, EOL}
                 THEN [SaveField(st) EXCEPT !.state = AfterNewline(c)]
            ELSE [AddChar(st, c) EXCEPT !.state = "IN_FIELD"]
       [] st.state = "EAT_CRNL" ->
            IF c \in {LF, CR} THEN st
            ELSE IF c = EOL THEN [st EXCEPT !.state = "START_RECORD"]
            ELSE [st EXCEPT !.err = TRUE]

\* the reader returns a row each time a line ends in START_RECORD
FeedChar(st, c) ==
  IF st.err THEN st
  ELSE LET nx == ProcessChar(st, c)
       IN IF c = EOL /\ nx.state = "START_RECORD" /\ ~nx.err
          THEN [nx EXCEPT !.rows = Append(nx.rows, nx.row), !.row = <<>>]
          ELSE nx

RECURSIVE FeedChars(_, _)
FeedChars(st, input) ==
  IF input = <<>> THEN st
  ELSE IF Len(input) = 1 THEN FeedChar(st, input[1])
       ELSE LET h == Len(input) \div 2
                left == FeedChars(st, SubSeq(input, 1, h))
            IN IF left.err THEN left
               ELSE FeedChars(left, SubSeq(input, h + 1, Len(input)))

\* and a last row when the input ends inside a quoted field
ReadRows(st, input) ==
  LET end == FeedChars(st, input)
  IN IF ~end.err /\ end.state = "IN_QUOTED_FIELD"
     THEN [end EXCEPT !.rows = Append(end.rows, SaveField(end).row)]
     ELSE end

\* parse_record: ok is FALSE when csv.Error is raised
parse_record(content) ==
  LET rd == ReadRows(ReaderStart, ReaderInput(content))
      rows == SelectSeq(rd.rows, LAMBDA row : row # <<>>)
  IN [ok |-> ~rd.err,
      entries |-> IF rd.err THEN <<>>
                  ELSE [i \in 1..Len(rows) |-> from_csv_row(rows[i])]]

\* ------------------------------------------------------------- patcher.py
VARIABLES
  wheel,            \* the source archive: sequence of [name, data]
  closed,           \* the read handle _zip_file has been closed
  _dist_info_dir,
  _record_path,
  _existing_record,
  _files_to_add,    \* insertion-ordered dict: sequence of [path, content]
  outFile,          \* the archive at the output path, or NoFile
  tempFiles,        \* number of temporary files in the output directory
  call,             \* the last call on the session and how it ended
  saved,            \* a save has succeeded on this session
  nAdds,
  nSaves,
  m,                \* a manifest handed to the RECORD functions
  rt,               \* the result of the RECORD function applied to m
  apply             \* cmd_apply: its manifest['files'], position and exit code

vars ==
  <<wheel, closed, _dist_info_dir, _record_path, _existing_record,
    _files_to_add, outFile, tempFiles, call, saved, nAdds, nSaves, m, rt,
    apply>>

sessionVars ==
  <<wheel, closed, _dist_info_dir, _record_path, _existing_record,
    _files_to_add, outFile, tempFiles, call, saved, nAdds, nSaves>>

NoFile == <<[name |-> <<"no file">>, data |-> <<>>]>>

Names(archive) == [i \in 1..Len(archive) |-> archive[i].name]

namelist == Names(wheel)

\* ZipFile.read(name): the last entry of that name in the central directory
ZipRead(archive, name) ==
  archive[CHOOSE i \in 1..Len(archive) :
            archive[i].name = name
            /\ \A j \in (i + 1)..Len(archive) : archive[j].name # name].data

Keys(d) == {d[i].path : i \in 1..Len(d)}

Get(d, k) == d[CHOOSE i \in 1..Len(d) : d[i].path = k].content

\* an assignment that moves a present key to the end
DictSet_MoveToEnd(d, k, v) ==
  Append(SelectSeq(d, LAMBDA e : e.path # k), [path |-> k, content |-> v])

\* d[k] = v on a dict: a present key keeps its position
DictSet(d, k, v) ==
  IF k \in Keys(d)
  THEN [i \in 1..Len(d) |-> IF d[i].path = k THEN [path |-> k, content |-> v]
                            ELSE d[i]]
  ELSE Append(d, [path |-> k, content |-> v])

\* the metadata directory and file names of the modelled wheels
DistDir == <<"p">> \o DistInfoSuffix
RecordPath == DistDir \o <<SLASH>> \o RecordName
ModPath == <<"m">>
NestedPath == <<"v", SLASH, "q">> \o DistInfoSuffix \o <<SLASH, "M">>

File(n, d) == [name |-> n, data |-> d]

\* the manifests found in the modelled wheels: a regular one, one without a
\* row for RECORD, and a legacy one with repeated rows
Manifest1 ==
  <<RecordEntry(ModPath, hash_file(<<"x">>), DecStr(1)),
    RecordEntry(RecordPath, <<>>, <<>>)>>
Manifest2 ==
  <<RecordEntry(NestedPath, hash_file(<<"y">>), DecStr(1)),
    RecordEntry(ModPath, hash_file(<<"x">>), DecStr(1))>>
Manifest3 ==
  <<RecordEntry(RecordPath, <<>>, <<>>),
    RecordEntry(ModPath, hash_file(<<"y">>), DecStr(1)),
    RecordEntry(ModPath, hash_file(<<"x">>), DecStr(1)),
    RecordEntry(RecordPath, <<>>, <<>>)>>

Wheel1 == <<File(ModPath, <<"x">>), File(RecordPath, format_record(Manifest1))>>
Wheel2 ==
  <<File(NestedPath, <<"y">>), File(ModPath, <<"x">>),
    File(RecordPath, format_record(Manifest2))>>
Wheel3 == <<File(RecordPath, format_record(Manifest3)), File(ModPath, <<"x">>)>>

\* an archive already at the output path before the session starts
OldOutput == <<File(<<"o">>, <<"z">>)>>

\* the sessions explored: a wheel and what is at the output path
Scenarios ==
  {[wheel |-> Wheel1, out |-> NoFile],
   [wheel |-> Wheel2, out |-> OldOutput],
   [wheel |-> Wheel3, out |-> OldOutput]}

\* the source files offered to add_file
Source(n, e, f, c) == [name |-> n, exists |-> e, is_file |-> f, content |-> c]
Sources ==
  {Source(<<"g">>, FALSE, FALSE, <<>>),
   Source(<<"d">>, TRUE, FALSE, <<>>),
   Source(<<"n">>, TRUE, TRUE, <<"x">>),
   Source(<<"n">>, TRUE, TRUE, <<"y", "y">>)}

\* the destinations offered to add_file
Dests ==
  {None,
   Placeholder \o <<"s">>,
   Placeholder \o <<"s", BACKSLASH, "t">>,
   Placeholder \o RecordName,
   <<"c", SLASH, "f">>,
   ModPath,
   <<SLASH, "e">>,
   <<".", ".", SLASH, "e">>,
   <<"c", BACKSLASH, ".", ".", SLASH, "f">>}

\* the add_file calls explored: every destination with the readable sources,
\* and the unreadable sources with an absent, a plain and an unsafe destination
AddCalls ==
  {c \in [source : Sources, dest : Dests, overwrite : BOOLEAN] :
     (c.source.exists /\ c.source.is_file)
     \/ c.dest \in {None, ModPath, <<".", ".", SLASH, "e">>}}

\* WheelPatcher.__init__ on a wheel: the session state, or ok = FALSE
Open(w) ==
  LET d == get_dist_info_dir(Names(w))
      rp == d \o <<SLASH>> \o RecordName
      hasRecord == d # None /\ \E i \in 1..Len(w) : w[i].name = rp
      parsed == IF hasRecord THEN parse_record(ZipRead(w, rp))
                ELSE [ok |-> FALSE, entries |-> <<>>]
  IN [ok |-> hasRecord /\ parsed.ok, dist_info_dir |-> d, record_path |-> rp,
      existing_record |-> parsed.entries]

\* a resolution that keeps the placeholder
_resolve_dist_info_path_Keep(path) == path

_resolve_dist_info_path(path) ==
  IF StartsWith(path, Placeholder)
  THEN _dist_info_dir \o SubSeq(path, Len(DistInfoSuffix) + 1, Len(path))
  ELSE path

\* the destination add_file computes (lines 103-107)
AddFileDest(source, dest) ==
  normalize_path(_resolve_dist_info_path(IF dest = None THEN source.name ELSE dest))

\* add_file without the check of the staging map
AddFileError_NoQueuedCheck(source, dest, overwrite) ==
  LET d == normalize_path(_resolve_dist_info_path(
                            IF dest = None THEN source.name ELSE dest))
  IN IF ~source.exists THEN "SourceNotFound"
     ELSE IF ~source.is_file THEN "NotAFile"
     ELSE IF validate_path_safe(d) # "none" THEN validate_path_safe(d)
     ELSE IF ~overwrite /\ d \in Range(namelist) THEN "AlreadyExists"
     ELSE "none"

\* add_file that refuses every call once a save has succeeded
AddFileError_SavedIsFinal(source, dest, overwrite) ==
  LET d == normalize_path(_resolve_dist_info_path(
                            IF dest = None THEN source.name ELSE dest))
  IN IF saved THEN "AlreadyExists"
     ELSE IF ~source.exists THEN "SourceNotFound"
     ELSE IF ~source.is_file THEN "NotAFile"
     ELSE IF validate_path_safe(d) # "none" THEN validate_path_safe(d)
     ELSE IF ~overwrite /\ d \in Range(namelist) THEN "AlreadyExists"
     ELSE IF ~overwrite /\ d \in Keys(_files_to_add) THEN "AlreadyQueued"
     ELSE "none"

\* the error add_file raises, or "none" (lines 97-116)
AddFileError(source, dest, overwrite) ==
  LET d == AddFileDest(source, dest)
  IN IF ~source.exists THEN "SourceNotFound"
     ELSE IF ~source.is_file THEN "NotAFile"
     ELSE IF validate_path_safe(d) # "none" THEN validate_path_safe(d)
     ELSE IF ~overwrite /\ d \in Range(namelist) THEN "AlreadyExists"
     ELSE IF ~overwrite /\ d \in Keys(_files_to_add) THEN "AlreadyQueued"
     ELSE "none"

\* add_file that stages the file before it checks for conflicts
add_file_StageFirst(source, dest, overwrite) ==
  LET err == AddFileError(source, dest, overwrite)
      d == AddFileDest(source, dest)
  IN /\ nAdds < MaxAdds
     /\ nAdds' = nAdds + 1
     /\ _files_to_add' = IF err \in {"none", "AlreadyExists", "AlreadyQueued"}
                         THEN DictSet(_files_to_add, d, source.content)
                         ELSE _files_to_add
     /\ call' = [op |-> "add_file", err |-> err, source |-> source,
                 dest |-> dest, overwrite |-> overwrite,
                 key |-> IF source.exists /\ source.is_file THEN d ELSE <<>>,
                 afterSave |-> saved, fault |-> "none"]
     /\ UNCHANGED <<wheel, closed, _dist_info_dir, _record_path,
                    _existing_record, outFile, tempFiles, saved, nSaves, m, rt>>

\* add_file: the checks of lines 97-116, then the staging of lines 118-119
add_file(source, dest, overwrite) ==
  LET err == AddFileError(source, dest, overwrite)
      d == AddFileDest(source, dest)
  IN /\ nAdds < MaxAdds
     /\ nAdds' = nAdds + 1
     /\ _files_to_add' = IF err = "none"
                         THEN DictSet(_files_to_add, d, source.content)
                         ELSE _files_to_add
     /\ call' = [op |-> "add_file", err |-> err, source |-> source,
                 dest |-> dest, overwrite |-> overwrite,
                 key |-> IF source.exists /\ source.is_file THEN d ELSE <<>>,
                 afterSave |-> saved, fault |-> "none"]
     /\ UNCHANGED <<wheel, closed, _dist_info_dir, _record_path,
                    _existing_record, outFile, tempFiles, saved, nSaves, m, rt>>

\* the faults the environment can inject into one save call
Faults == {"none", "mkstemp", "read", "write", "rename"}

\* the archive save builds in the temporary file (lines 157-170)
BuildArchive ==
  SelectSeq(wheel, LAMBDA item : item.name # _record_path)
    \o [i \in 1..Len(_files_to_add) |->
          File(_files_to_add[i].path, _files_to_add[i].content)]
    \o <<File(_record_path,
              format_record(update_record(_existing_record, _files_to_add,
                                          _record_path)))>>

\* ZipFile.read on a closed handle raises; writestr of an empty name raises
ReadFails(fault) ==
  fault = "read" \/ (closed /\ \E i \in 1..Len(wheel) : wheel[i].name # _record_path)

WriteFails(fault) == fault = "write" \/ <<>> \in Keys(_files_to_add)

\* a save that looks at the staging map only after creating the temporary file
save_result_CheckAfterMkstemp(fault) ==
  IF fault = "mkstemp"
  THEN [err |-> "OSError", out |-> outFile, temps |-> tempFiles]
  ELSE LET created == tempFiles + 1
       IN IF _files_to_add = <<>>
          THEN [err |-> "NothingToSave", out |-> outFile, temps |-> created]
          ELSE IF ReadFails(fault) \/ WriteFails(fault) \/ fault = "rename"
               THEN [err |-> "WriteFailure", out |-> outFile,
                     temps |-> created - 1]
               ELSE [err |-> "none", out |-> BuildArchive,
                     temps |-> created - 1]

\* save: the error raised, the output path and the temporary files after it
save_result(fault) ==
  IF _files_to_add = <<>>
  THEN [err |-> "NothingToSave", out |-> outFile, temps |-> tempFiles]
  ELSE IF fault = "mkstemp"
       THEN [err |-> "OSError", out |-> outFile, temps |-> tempFiles]
       ELSE LET created == tempFiles + 1
            IN IF ReadFails(fault) \/ WriteFails(fault) \/ fault = "rename"
               THEN [err |-> "WriteFailure", out |-> outFile,
                     temps |-> created - 1]
               ELSE [err |-> "none", out |-> BuildArchive,
                     temps |-> created - 1]

\* a save that empties the staging map once the archive is written
save_ClearsStaging(fault) ==
  LET r == save_result(fault)
  IN /\ nSaves < MaxSaves
     /\ _files_to_add = <<>> => fault = "none"
     /\ nSaves' = nSaves + 1
     /\ outFile' = r.out
     /\ tempFiles' = r.temps
     /\ saved' = (saved \/ r.err = "none")
     /\ _files_to_add' = IF r.err = "none" THEN <<>> ELSE _files_to_add
     /\ call' = [op |-> "save", err |-> r.err, source |-> Source(<<>>, FALSE, FALSE, <<>>),
                 dest |-> None, overwrite |-> FALSE, key |-> <<>>,
                 afterSave |-> saved, fault |-> fault]
     /\ UNCHANGED <<wheel, closed, _dist_info_dir, _record_path,
                    _existing_record, nAdds, m, rt>>

\* save(output_path): lines 145-185
save(fault) ==
  LET r == save_result(fault)
  IN /\ nSaves < MaxSaves
     /\ _files_to_add = <<>> => fault = "none"
     /\ nSaves' = nSaves + 1
     /\ outFile' = r.out
     /\ tempFiles' = r.temps
     /\ saved' = (saved \/ r.err = "none")
     /\ call' = [op |-> "save", err |-> r.err, source |-> Source(<<>>, FALSE, FALSE, <<>>),
                 dest |-> None, overwrite |-> FALSE, key |-> <<>>,
                 afterSave |-> saved, fault |-> fault]
     /\ UNCHANGED <<wheel, closed, _dist_info_dir, _record_path,
                    _existing_record, _files_to_add, nAdds, m, rt>>

\* close(): ZipFile.close() on the handle, whatever its state
close ==
  /\ closed' = TRUE
  /\ call' = [op |-> "close", err |-> "none", source |-> Source(<<>>, FALSE, FALSE, <<>>),
              dest |-> None, overwrite |-> FALSE, key |-> <<>>,
              afterSave |-> saved, fault |-> "none"]
  /\ UNCHANGED <<wheel, _dist_info_dir, _record_path, _existing_record,
                 _files_to_add, outFile, tempFiles, saved, nAdds, nSaves, m, rt>>

NoResult == [op |-> "none", ok |-> TRUE, entries |-> <<>>]

\* no cmd_apply is running
NoApply ==
  [files |-> <<>>, force |-> FALSE, pc |-> "none", idx |-> 0, code |-> 0,
   reason |-> "none", out |-> <<>>]

Init ==
  /\ \E sc \in Scenarios : wheel = sc.wheel /\ outFile = sc.out
  /\ Open(wheel).ok
  /\ closed = FALSE
  /\ _dist_info_dir = Open(wheel).dist_info_dir
  /\ _record_path = Open(wheel).record_path
  /\ _existing_record = Open(wheel).existing_record
  /\ _files_to_add = <<>>
  /\ tempFiles = 0
  /\ call = [op |-> "open", err |-> "none", source |-> Source(<<>>, FALSE, FALSE, <<>>),
             dest |-> None, overwrite |-> FALSE, key |-> <<>>,
             afterSave |-> FALSE, fault |-> "none"]
  /\ saved = FALSE
  /\ nAdds = 0
  /\ nSaves = 0
  /\ m = <<>>
  /\ rt = NoResult
  /\ apply = NoApply

AddFileStep ==
  /\ \E c \in AddCalls : add_file(c.source, c.dest, c.overwrite)
  /\ UNCHANGED apply

SaveStep ==
  /\ \E fault \in Faults : save(fault)
  /\ UNCHANGED apply

Next == AddFileStep \/ SaveStep

Spec == Init /\ [][Next]_vars

\* ----------------------------------------- the RECORD functions on their own
\* the characters of a manifest field
FieldChars == {"a", COMMA, QUOTE, LF, CR}

RECURSIVE Texts(_)
Texts(n) ==
  IF n = 0 THEN {<<>>}
  ELSE Texts(n - 1) \cup {Append(t, c) : t \in Texts(n - 1), c \in FieldChars}

\* manifest rows: one free field, the other two both empty or both plain
EntryPool ==
  {RecordEntry(t, o, o) : t \in Texts(MaxFieldLen), o \in {<<>>, <<"a">>}}
    \cup {RecordEntry(o, t, o) : t \in Texts(MaxFieldLen), o \in {<<>>, <<"a">>}}
    \cup {RecordEntry(o, o, t) : t \in Texts(MaxFieldLen), o \in {<<>>, <<"a">>}}

InitRecord ==
  /\ wheel = Wheel1
  /\ closed = FALSE
  /\ _dist_info_dir = Open(wheel).dist_info_dir
  /\ _record_path = Open(wheel).record_path
  /\ _existing_record = Open(wheel).existing_record
  /\ _files_to_add = <<>>
  /\ outFile = NoFile
  /\ tempFiles = 0
  /\ call = [op |-> "open", err |-> "none", source |-> Source(<<>>, FALSE, FALSE, <<>>),
             dest |-> None, overwrite |-> FALSE, key |-> <<>>,
             afterSave |-> FALSE, fault |-> "none"]
  /\ saved = FALSE
  /\ nAdds = 0
  /\ nSaves = 0
  /\ m = <<>>
  /\ rt = NoResult
  /\ apply = NoApply

\* the caller builds a manifest row by row
AppendEntry ==
  /\ Len(m) < MaxEntries
  /\ \E e \in EntryPool : m' = Append(m, e)
  /\ rt' = NoResult
  /\ UNCHANGED <<sessionVars, apply>>

\* parse_record(format_record(m))
Roundtrip ==
  /\ rt.op = "none"
  /\ rt' = [op |-> "roundtrip", ok |-> parse_record(format_record(m)).ok,
            entries |-> parse_record(format_record(m)).entries]
  /\ UNCHANGED <<sessionVars, m, apply>>

NextRecord == AppendEntry \/ Roundtrip

SpecRecord == InitRecord /\ [][NextRecord]_vars

\* ------------------------------------------------- the constructor on its own
QDir == <<"q">> \o DistInfoSuffix

\* the entry names of the archives handed to the constructor: a module, the
\* RECORD of two root-level metadata directories, a metadata directory nested
\* in a bundled package, a root-level file named like a metadata directory,
\* and a metadata file
NamePool ==
  {ModPath, RecordPath, QDir \o <<SLASH>> \o RecordName, NestedPath, QDir,
   DistDir \o <<SLASH, "M">>}

EntryOf(name) ==
  File(name, IF EndsWith(name, RecordName) THEN format_record(Manifest1)
             ELSE <<"x">>)

RECURSIVE ArchivesOf(_)
ArchivesOf(n) ==
  IF n = 0 THEN {<<>>}
  ELSE ArchivesOf(n - 1)
         \cup {Append(a, EntryOf(name)) :
                 a \in {b \in ArchivesOf(n - 1) : Len(b) = n - 1},
                 name \in NamePool}

\* zip archives without repeated entry names
OpenArchives ==
  {a \in ArchivesOf(MaxNames) :
     \A i, j \in 1..Len(a) : a[i].name = a[j].name => i = j}

NoCall ==
  [op |-> "none", err |-> "none", source |-> Source(<<>>, FALSE, FALSE, <<>>),
   dest |-> None, overwrite |-> FALSE, key |-> <<>>, afterSave |-> FALSE,
   fault |-> "none"]

InitOpen ==
  /\ wheel \in OpenArchives
  /\ closed = TRUE
  /\ _dist_info_dir = None
  /\ _record_path = None
  /\ _existing_record = <<>>
  /\ _files_to_add = <<>>
  /\ outFile = NoFile
  /\ tempFiles = 0
  /\ call = NoCall
  /\ saved = FALSE
  /\ nAdds = 0
  /\ nSaves = 0
  /\ m = <<>>
  /\ rt = NoResult
  /\ apply = NoApply

\* the error WheelPatcher.__init__ raises on an existing .whl zip file
OpenError(w) ==
  IF get_dist_info_dir(Names(w)) = None THEN "NoMetadataDir"
  ELSE IF \A i \in 1..Len(w) : w[i].name # Open(w).record_path
       THEN "RecordNotFound"
  ELSE IF ~Open(w).ok THEN "CsvError"
  ELSE "none"

\* WheelPatcher(wheel_path): the handle is opened first (line 42); when the
\* constructor then raises, no statement closes it, and whether it is closed
\* is left to the garbage collector
open ==
  /\ call.op = "none"
  /\ call' = [NoCall EXCEPT !.op = "open", !.err = OpenError(wheel)]
  /\ IF OpenError(wheel) = "none"
     THEN /\ closed' = FALSE
          /\ _dist_info_dir' = Open(wheel).dist_info_dir
          /\ _record_path' = Open(wheel).record_path
          /\ _existing_record' = Open(wheel).existing_record
     ELSE /\ closed' \in BOOLEAN
          /\ UNCHANGED <<_dist_info_dir, _record_path, _existing_record>>
  /\ UNCHANGED <<wheel, _files_to_add, outFile, tempFiles, saved, nAdds,
                 nSaves, m, rt>>

\* close() on a constructed session
CloseSession == call.op \in {"open", "close"} /\ call.err = "none" /\ close

NextOpen == (open \/ CloseSession) /\ UNCHANGED apply

SpecOpen == InitOpen /\ [][NextOpen]_vars

\* ------------------------------------------------------- cmd_apply (cli.py)
\* an element of manifest['files']; source and dest are read only when the
\* keys are present
FileSpec(has_source, has_dest, source, dest) ==
  [has_source |-> has_source, has_dest |-> has_dest, source |-> source,
   dest |-> dest]

NoSource == Source(<<>>, FALSE, FALSE, <<>>)

FileSpecs ==
  LET n == Source(<<"n">>, TRUE, TRUE, <<"x">>)
  IN {FileSpec(TRUE, TRUE, n, <<"c", SLASH, "f">>),
      FileSpec(TRUE, TRUE, n, Placeholder \o <<"s">>),
      FileSpec(TRUE, TRUE, n, ModPath),
      FileSpec(TRUE, TRUE, n, <<".", ".", SLASH, "e">>),
      FileSpec(TRUE, TRUE, Source(<<"g">>, FALSE, FALSE, <<>>), <<"c", SLASH, "f">>),
      FileSpec(TRUE, TRUE, Source(<<"d">>, TRUE, FALSE, <<>>), <<"c", SLASH, "f">>),
      FileSpec(FALSE, TRUE, NoSource, <<"c", SLASH, "f">>),
      FileSpec(TRUE, FALSE, n, None)}

RECURSIVE Batches(_)
Batches(n) ==
  IF n = 0 THEN {<<>>}
  ELSE Batches(n - 1)
         \cup {Append(b, fs) : b \in {c \in Batches(n - 1) : Len(c) = n - 1},
                               fs \in FileSpecs}

\* the wheels handed to cmd_apply: those of the scenarios and one without a
\* metadata directory
ApplyScenarios ==
  Scenarios \cup {[wheel |-> <<File(ModPath, <<"x">>)>>, out |-> OldOutput]}

\* cmd_apply up to the with statement: the wheel file and the manifest have
\* passed their checks and manifest['files'] is a list
InitApply ==
  /\ \E sc \in ApplyScenarios : wheel = sc.wheel /\ outFile = sc.out
  /\ closed = TRUE
  /\ _dist_info_dir = None
  /\ _record_path = None
  /\ _existing_record = <<>>
  /\ _files_to_add = <<>>
  /\ tempFiles = 0
  /\ call = NoCall
  /\ saved = FALSE
  /\ nAdds = 0
  /\ nSaves = 0
  /\ m = <<>>
  /\ rt = NoResult
  /\ \E files \in Batches(MaxBatch), force \in BOOLEAN :
       apply = [files |-> files, force |-> force, pc |-> "start", idx |-> 1,
                code |-> 0, reason |-> "none", out |-> outFile]

\* a check that forgets the keys and goes on to the source
file_spec_error_NoKeyCheck(file_spec) ==
  IF ~file_spec.source.exists THEN "source_missing" ELSE "none"

\* the checks of the loop body before add_file (lines 127-136)
file_spec_error(file_spec) ==
  IF ~file_spec.has_source \/ ~file_spec.has_dest THEN "malformed"
  ELSE IF ~file_spec.source.exists THEN "source_missing"
  ELSE "none"

\* with WheelPatcher(wheel_path) as patcher: a failing constructor is caught
\* by the except clauses, which return 1
ApplyOpen ==
  /\ apply.pc = "start"
  /\ open
  /\ apply' = IF OpenError(wheel) = "none"
              THEN [apply EXCEPT !.pc = "loop"]
              ELSE [apply EXCEPT !.pc = "done", !.code = 1, !.reason = "open"]

\* one iteration of for file_spec in manifest['files']
ApplyFile ==
  /\ apply.pc = "loop"
  /\ apply.idx <= Len(apply.files)
  /\ LET file_spec == apply.files[apply.idx]
         err == file_spec_error(file_spec)
     IN IF err # "none"
        THEN /\ apply' = [apply EXCEPT !.pc = "exit", !.code = 1, !.reason = err]
             /\ UNCHANGED <<sessionVars, m, rt>>
        ELSE /\ add_file(file_spec.source, file_spec.dest, apply.force)
             /\ apply' =
                  IF AddFileError(file_spec.source, file_spec.dest, apply.force) = "none"
                  THEN [apply EXCEPT !.idx = apply.idx + 1]
                  ELSE [apply EXCEPT !.pc = "exit", !.code = 1, !.reason = "add_file"]

\* patcher.save(output_path) after the loop
ApplySave ==
  /\ apply.pc = "loop"
  /\ apply.idx > Len(apply.files)
  /\ \E fault \in Faults :
       /\ save(fault)
       /\ apply' = IF save_result(fault).err = "none"
                   THEN [apply EXCEPT !.pc = "exit", !.code = 0]
                   ELSE [apply EXCEPT !.pc = "exit", !.code = 1, !.reason = "save"]

\* leaving the with block: __exit__ closes the session, then cmd_apply returns
ApplyExit ==
  /\ apply.pc = "exit"
  /\ close
  /\ apply' = [apply EXCEPT !.pc = "done"]

NextApply == ApplyOpen \/ ApplyFile \/ ApplySave \/ ApplyExit

SpecApply == InitApply /\ [][NextApply]_vars

\* ------------------------------------- update_record on a staging map
\* the paths staged: a module of the wheel, a new file, the RECORD path
StageKeys == {ModPath, <<"n">>, RecordPath}

StageContents == {<<"x">>, <<"y", "y">>}

\* the parsed manifest and an empty staging map
InitUpdate ==
  /\ wheel = <<>>
  /\ closed = FALSE
  /\ _dist_info_dir = DistDir
  /\ _record_path = RecordPath
  /\ _existing_record \in {Manifest1, Manifest2, Manifest3}
  /\ _files_to_add = <<>>
  /\ outFile = NoFile
  /\ tempFiles = 0
  /\ call = NoCall
  /\ saved = FALSE
  /\ nAdds = 0
  /\ nSaves = 0
  /\ m = <<>>
  /\ rt = NoResult
  /\ apply = NoApply

\* self._files_to_add[dest_path] = source.read_bytes() (patcher.py line 119)
StageFile ==
  \E k \in StageKeys, c \in StageContents :
    /\ Len(_files_to_add) < MaxStaged \/ k \in Keys(_files_to_add)
    /\ _files_to_add' = DictSet(_files_to_add, k, c)
    /\ call' = [NoCall EXCEPT !.op = "stage", !.key = k]
    /\ rt' = NoResult
    /\ UNCHANGED <<wheel, closed, _dist_info_dir, _record_path,
                   _existing_record, outFile, tempFiles, saved, nAdds, nSaves,
                   m, apply>>

\* update_record(self._existing_record, self._files_to_add, self._record_path)
\* (patcher.py lines 164-166)
Update ==
  /\ rt' = [op |-> "update", ok |-> TRUE,
            entries |-> update_record(_existing_record, _files_to_add, _record_path)]
  /\ UNCHANGED <<sessionVars, m, apply>>

NextUpdate == StageFile \/ Update

SpecUpdate == InitUpdate /\ [][NextUpdate]_vars

\* ------------------------------------------------------------------ claims
IsAdd == nAdds' = nAdds + 1

IsSave == nSaves' = nSaves + 1

SourceOk(c) == c.source.exists /\ c.source.is_file

\* some "/"-separated segment of path is ".."
HasParentSegment(path) ==
  \E i \in 1..(Len(path) - 1) :
    /\ path[i] = "." /\ path[i + 1] = "."
    /\ (i = 1 \/ path[i - 1] = SLASH)
    /\ (i + 1 = Len(path) \/ path[i + 2] = SLASH)

RowsFor(man, p) == {i \in 1..Len(man) : man[i].path = p}

\* the manifest read back from the archive at the output path
SavedManifest == parse_record(ZipRead(outFile, _record_path)).entries

StagedAt(p, c) == p \in Keys(_files_to_add) /\ Get(_files_to_add, p) = c

SaveSucceeded == call.op = "save" /\ call.err = "none"

\* C1: the result of update(existing, newFiles, manifestPath) holds exactly one
\* entry for manifestPath, and it is the last one, with empty hash and size
\* (existing and newFiles are those of the session, in every state).
C1_SelfEntryOnceLast ==
  LET r == update_record(_existing_record, _files_to_add, _record_path)
  IN /\ Cardinality(RowsFor(r, _record_path)) = 1
     /\ r[Len(r)] = RecordEntry(_record_path, <<>>, <<>>)

\* C2: after a successful save, every staged path P that is also a name of the
\* source archive reads back from the saved archive as the staged content, and
\* the saved manifest has a row for P, every row for P carrying the hash and
\* the size of the staged content.
C2_OverwriteReplaces ==
  SaveSucceeded =>
    \A i \in 1..Len(_files_to_add) :
      LET P == _files_to_add[i].path
          c == _files_to_add[i].content
      IN P \in Range(namelist) =>
           /\ ZipRead(outFile, P) = c
           /\ RowsFor(SavedManifest, P) # {}
           /\ \A j \in RowsFor(SavedManifest, P) :
                /\ SavedManifest[j].hash = hash_file(c)
                /\ SavedManifest[j].size = DecStr(Len(c))

PassedEarlierChecks(c) ==
  c.err \notin {"SourceNotFound", "NotAFile", "PathTraversal", "AbsolutePath"}

\* C3 as stated: an add_file call that reaches the conflict checks with
\* overwrite=false fails with AlreadyExists when its destination is a name of
\* the source archive and with AlreadyQueued when it is a key of the staging
\* map; with overwrite=true it fails with neither.
C3_ConflictOriginal ==
  [][(IsAdd /\ PassedEarlierChecks(call')) =>
       /\ (~call'.overwrite /\ call'.key \in Range(namelist))
            => call'.err = "AlreadyExists"
       /\ (~call'.overwrite /\ call'.key \in Keys(_files_to_add))
            => call'.err = "AlreadyQueued"
       /\ call'.overwrite => call'.err \notin {"AlreadyExists", "AlreadyQueued"}]_vars

\* C3 amended: as stated, but AlreadyQueued is the failure when the
\* destination is a key of the staging map and not a name of the source
\* archive (a destination that is both fails with AlreadyExists).
C3_Conflict ==
  [][(IsAdd /\ PassedEarlierChecks(call')) =>
       /\ (~call'.overwrite /\ call'.key \in Range(namelist))
            => call'.err = "AlreadyExists"
       /\ (~call'.overwrite /\ call'.key \in Keys(_files_to_add)
             /\ call'.key \notin Range(namelist))
            => call'.err = "AlreadyQueued"
       /\ call'.overwrite => call'.err \notin {"AlreadyExists", "AlreadyQueued"}]_vars

\* C3 witness: a call without overwrite was rejected because its destination
\* was already staged.
C3_Witness ==
  /\ call.op = "add_file" /\ call.err = "AlreadyQueued" /\ ~call.overwrite
  /\ call.key \in Keys(_files_to_add)

\* C4: an add_file call with a readable source whose resolved, normalized
\* destination has a segment ".." fails with PathTraversal whatever the
\* overwrite flag, and stages nothing and writes nothing.
C4_TraversalRejected ==
  [][(IsAdd /\ SourceOk(call')
        /\ HasParentSegment(call'.key)) =>
       /\ call'.err = "PathTraversal"
       /\ _files_to_add' = _files_to_add
       /\ outFile' = outFile
       /\ tempFiles' = tempFiles]_vars

\* C4 witness: a call with overwrite=true and a ".." segment behind a
\* backslash was rejected with PathTraversal.
C4_Witness ==
  /\ call.op = "add_file" /\ call.err = "PathTraversal" /\ call.overwrite
  /\ call.dest = <<"c", BACKSLASH, ".", ".", SLASH, "f">>

\* C5: an add_file call with a readable source whose destination, as supplied,
\* is absolute fails with AbsolutePath and its destination is not staged.
C5_AbsoluteRejected ==
  (call.op = "add_file" /\ SourceOk(call) /\ call.dest # None /\ isabs(call.dest))
    => /\ call.err = "AbsolutePath"
       /\ normalize_path(call.dest) \notin Keys(_files_to_add)

\* C6: save on an empty staging map fails with NothingToSave and leaves the
\* source archive, the temporary files of the output directory and the output
\* path as they were.
C6_NothingToSave ==
  [][(IsSave /\ _files_to_add = <<>>) =>
       /\ call'.err = "NothingToSave"
       /\ wheel' = wheel
       /\ tempFiles' = tempFiles
       /\ outFile' = outFile]_vars

\* C6 witness: save was refused with NothingToSave while an archive was
\* already at the output path.
C6_Witness ==
  /\ call.op = "save" /\ call.err = "NothingToSave"
  /\ outFile = OldOutput /\ _files_to_add = <<>>

StagedPathsSaved ==
  SaveSucceeded =>
    \A k \in Keys(_files_to_add) :
      k \in Range(Names(outFile)) /\ RowsFor(SavedManifest, k) # {}

\* C7 as stated: an accepted add_file with a destination that starts with
\* ".dist-info/" stages the file at D + "/" + the rest of the destination, any
\* other destination is staged at its normalized form; after a successful
\* save the archive and the manifest both hold every staged path.
C7_PlaceholderOriginal ==
  /\ (call.op = "add_file" /\ call.err = "none" /\ call.dest # None) =>
       IF StartsWith(call.dest, Placeholder)
       THEN StagedAt(_dist_info_dir \o <<SLASH>>
                       \o SubSeq(call.dest, Len(Placeholder) + 1, Len(call.dest)),
                     call.source.content)
       ELSE StagedAt(normalize_path(call.dest), call.source.content)
  /\ StagedPathsSaved

\* C7 amended: as stated, but a destination that starts with ".dist-info/" is
\* staged at the normalized form of D + "/" + the rest of the destination
\* (a backslash in the rest becomes "/").
C7_Placeholder ==
  /\ (call.op = "add_file" /\ call.err = "none" /\ call.dest # None) =>
       IF StartsWith(call.dest, Placeholder)
       THEN StagedAt(normalize_path(
                       _dist_info_dir \o <<SLASH>>
                         \o SubSeq(call.dest, Len(Placeholder) + 1, Len(call.dest))),
                     call.source.content)
       ELSE StagedAt(normalize_path(call.dest), call.source.content)
  /\ StagedPathsSaved

\* C7 witness: a file staged through the placeholder and one staged at a
\* plain path have both been saved.
C7_Witness ==
  /\ SaveSucceeded
  /\ DistDir \o <<SLASH, "s">> \in Keys(_files_to_add)
  /\ <<"c", SLASH, "f">> \in Keys(_files_to_add)
  /\ DistDir \o <<SLASH, "c", SLASH, "f">> \notin Range(Names(outFile))

\* C8: a save that fails on a non-empty staging map, at whichever step, leaves
\* no temporary file, leaves the output path as it was, fails with
\* WriteFailure and leaves the staging map unchanged.
C8_SaveFailureClean ==
  [][(IsSave /\ _files_to_add # <<>> /\ call'.err # "none") =>
       /\ tempFiles' = tempFiles
       /\ outFile' = outFile
       /\ call'.err = "WriteFailure"
       /\ _files_to_add' = _files_to_add]_vars

\* C9 as stated: once save has succeeded, every later add_file call is
\* rejected and leaves the staging map unchanged.
C9_AddAfterSaveOriginal ==
  [][(IsAdd /\ saved) =>
       (call'.err # "none" /\ _files_to_add' = _files_to_add)]_vars

\* C9 amended: add_file stays allowed after save. Once save has succeeded, a
\* later add_file call that passes the source, path-safety and conflict checks
\* is accepted and stages its file; only a call that fails one of these
\* checks is rejected, and it leaves the staging map unchanged.
C9_AddAfterSave ==
  [][(IsAdd /\ saved) =>
       /\ (SourceOk(call') /\ ~HasParentSegment(call'.key) /\ ~isabs(call'.key)
             /\ (call'.overwrite
                   \/ (call'.key \notin Range(namelist)
                         /\ call'.key \notin Keys(_files_to_add))))
            => call'.err = "none"
       /\ call'.err = "none" =>
            /\ call'.key \in Keys(_files_to_add')
            /\ Get(_files_to_add', call'.key) = call'.source.content
       /\ call'.err # "none" =>
            /\ _files_to_add' = _files_to_add
            /\ call'.err \in {"SourceNotFound", "NotAFile", "PathTraversal",
                              "AbsolutePath", "AlreadyExists", "AlreadyQueued"}]_vars

\* C9 witness: an add_file call made after a successful save was accepted.
C9_Witness ==
  /\ call.op = "add_file" /\ call.afterSave /\ call.err = "none"
  /\ call.key \in Keys(_files_to_add)

NoCommaNoQuote(man) ==
  \A i \in 1..Len(man) :
    (Range(man[i].path) \cup Range(man[i].hash) \cup Range(man[i].size))
      \cap {COMMA, QUOTE} = {}

\* the text of name before its first "/"
FirstSegment(name) ==
  IF \A i \in 1..Len(name) : name[i] # SLASH THEN name
  ELSE SubSeq(name, 1,
              (CHOOSE i \in 1..Len(name) :
                 name[i] = SLASH /\ \A j \in 1..(i - 1) : name[j] # SLASH) - 1)

\* the root-depth metadata directories of an archive: first segments that end
\* in ".dist-info" and have an entry beneath them
MetaDirs(names) ==
  {FirstSegment(names[i]) : i \in {j \in 1..Len(names) :
     /\ FirstSegment(names[j]) # names[j]
     /\ EndsWith(FirstSegment(names[j]), DistInfoSuffix)}}

\* the entries whose first segment ends in ".dist-info"
Candidates(names) ==
  {i \in 1..Len(names) : EndsWith(FirstSegment(names[i]), DistInfoSuffix)}

FirstCandidate(names) ==
  FirstSegment(names[CHOOSE i \in Candidates(names) :
                       \A j \in Candidates(names) : i <= j])

C13_HandleReleased ==
  /\ (call.op = "open" /\ call.err # "none") => closed
  /\ call.op = "close" => closed

\* the elements of the batch that lack 'source' or 'dest'
MalformedAt == {i \in 1..Len(apply.files) :
                  ~apply.files[i].has_source \/ ~apply.files[i].has_dest}

FirstMalformed == CHOOSE i \in MalformedAt : \A j \in MalformedAt : i <= j

ApplyOpened == apply.pc = "done" /\ apply.reason # "open"

\* no save took effect: none succeeded and the output path is as before
NoSaveDone == ~saved /\ outFile = apply.out /\ tempFiles = 0

\* C12 as stated: if any element of the files array lacks 'source' or 'dest'
\* the batch is rejected before a single add_file call, whatever the position
\* of the element; every rejected or failed batch performs no save and exits
\* with 1.
C12_ApplyOriginal ==
  apply.pc = "done" =>
    /\ MalformedAt # {} =>
         /\ apply.code = 1
         /\ nSaves = 0
         /\ nAdds = 0
    /\ apply.code = 1 => NoSaveDone
    /\ apply.code = 0 <=> saved

\* C12 amended: if any element of the files array lacks 'source' or 'dest'
\* the batch is rejected when the loop reaches the first such element, after
\* add_file has been called for the elements before it (so before any
\* add_file call only when that element is the first) and without a call for
\* it or for a later element; every rejected or failed batch performs no save
\* and exits with 1.
C12_Apply ==
  apply.pc = "done" =>
    /\ MalformedAt # {} =>
         /\ apply.code = 1
         /\ nSaves = 0
         /\ nAdds < FirstMalformed
         /\ apply.reason = "malformed" => nAdds = FirstMalformed - 1
    /\ apply.code = 1 => NoSaveDone
    /\ apply.code = 0 <=> saved

\* C12 witness: a batch whose second element is malformed has been rejected
\* after the add_file call for its first element.
C12_Witness ==
  /\ apply.pc = "done" /\ apply.reason = "malformed"
  /\ FirstMalformed = 2
  /\ nAdds = 1
  /\ apply.code = 1 /\ closed

PathsOf(d) == [i \in 1..Len(d) |-> d[i].path]

\* the entries of existing that are neither the manifest's own nor re-staged
Survivors ==
  SelectSeq(_existing_record,
            LAMBDA e : e.path # _record_path /\ e.path \notin Keys(_files_to_add))

\* one entry per staged key, in the order of the staging map
FreshEntries ==
  [i \in 1..Len(_files_to_add) |->
     RecordEntry(_files_to_add[i].path, hash_file(_files_to_add[i].content),
                 DecStr(Len(_files_to_add[i].content)))]

\* C14: the result of update is the surviving entries of existing (path
\* neither manifestPath nor a key of newFiles) in their original order, then
\* one fresh entry per key of newFiles in the staging map's insertion order,
\* then the self-entry; staging a key that is already in the map keeps the
\* key's position, staging a new key puts it last.
C14_UpdateOrder ==
  [][/\ rt'.op = "update" =>
          rt'.entries = Survivors \o FreshEntries
                          \o <<RecordEntry(_record_path, <<>>, <<>>)>>
     /\ call'.op = "stage" =>
          /\ call'.key \in Keys(_files_to_add) =>
               PathsOf(_files_to_add') = PathsOf(_files_to_add)
          /\ call'.key \notin Keys(_files_to_add) =>
               PathsOf(_files_to_add') = Append(PathsOf(_files_to_add), call'.key)]_vars

\* C14 witness: update has run on a map of two keys whose first key was
\* staged again last, with an entry of existing surviving and one replaced.
C14_Witness ==
  /\ rt.op = "update"
  /\ Len(_files_to_add) = 2
  /\ call.op = "stage" /\ call.key = _files_to_add[1].path
  /\ Survivors # <<>>
  /\ \E i \in 1..Len(_existing_record) :
       _existing_record[i].path \in Keys(_files_to_add) \ {_record_path}

\* C15 as stated: no two entries of update(existing, newFiles, manifestPath)
\* have the same path, also when existing holds a path more than once.
C15_UniqueOriginal ==
  rt.op = "update" =>
    \A i, j \in 1..Len(rt.entries) :
      rt.entries[i].path = rt.entries[j].path => i = j

\* C15 amended: the merge step enforces uniqueness for the paths it writes:
\* every key of newFiles other than manifestPath occurs exactly once in the
\* result, while a path that is neither manifestPath nor a key of newFiles
\* occurs as often as it does in existing.
C15_Unique ==
  rt.op = "update" =>
    /\ \A k \in Keys(_files_to_add) \ {_record_path} :
         Cardinality(RowsFor(rt.entries, k)) = 1
    /\ \A i \in 1..Len(_existing_record) :
         LET p == _existing_record[i].path
         IN (p # _record_path /\ p \notin Keys(_files_to_add)) =>
              Cardinality(RowsFor(rt.entries, p))
                = Cardinality(RowsFor(_existing_record, p))

\* C15 witness: update has run with a staged key that existing holds twice.
C15_Witness ==
  /\ rt.op = "update"
  /\ \E k \in Keys(_files_to_add) \ {_record_path} :
       Cardinality(RowsFor(_existing_record, k)) = 2

\* C16: save changes neither the staging map nor the parsed manifest, and a
\* save that follows a successful save with no add_file in between (and no
\* fault of its own) succeeds and leaves at the output path an archive with
\* the same entry names, contents and manifest.
C16_SaveAgain ==
  [][IsSave =>
       /\ _files_to_add' = _files_to_add
       /\ _existing_record' = _existing_record
       /\ (SaveSucceeded /\ call'.fault = "none") =>
            /\ call'.err = "none"
            /\ outFile' = outFile]_vars

\* C16 witness: one file was staged and two saves in a row have succeeded.
C16_Witness ==
  /\ SaveSucceeded /\ call.afterSave
  /\ nSaves = 2 /\ nAdds = 1
  /\ Len(_files_to_add) = 1

\* C17: an add_file call that is rejected, for whatever cause, leaves the
\* staging map, the parsed manifest and the source archive as they were.
C17_RejectedAddFrame ==
  [][(IsAdd /\ call'.err # "none") =>
       /\ _files_to_add' = _files_to_add
       /\ _existing_record' = _existing_record
       /\ wheel' = wheel]_vars

\* C17 witness: with a file staged by an earlier call, a second call for the
\* same destination has been rejected as already queued.
C17_Witness ==
  /\ call.op = "add_file" /\ call.err = "AlreadyQueued"
  /\ nAdds = 2
  /\ PathsOf(_files_to_add) = <<call.key>>

\* C18: after every successful save each entry name occurs exactly once in
\* the archive at the output path.
C18_OutputNamesUnique ==
  SaveSucceeded =>
    \A i, j \in 1..Len(outFile) : outFile[i].name = outFile[j].name => i = j

\* C19: every key of the staging map is a normalized in-archive path: it
\* holds no backslash, does not start with "/" and has no ".." segment.
C19_KeysNormalized ==
  \A k \in Keys(_files_to_add) :
    /\ \A i \in 1..Len(k) : k[i] # BACKSLASH
    /\ ~StartsWith(k, <<SLASH>>)
    /\ ~HasParentSegment(k)

\* C19 witness: a destination written with a backslash, and one written with
\* a leading "/", have been staged.
C19_Witness ==
  /\ Len(_files_to_add) = 2
  /\ call.op = "add_file" /\ call.err = "none"
  /\ \E i \in 1..Len(call.dest) : call.dest[i] = BACKSLASH
  /\ <<"e">> \in Keys(_files_to_add)

\* C10: parse(serialize(m)) = m for every manifest m whose fields hold no
\* comma and no quote character.
C10_Roundtrip ==
  (rt.op = "roundtrip" /\ NoCommaNoQuote(m)) => (rt.ok /\ rt.entries = m)
====
